---- MODULE Spec2Model ----
(***************************************************************************)
(* Model of the purchase-tracker pipeline: the retailer order path        *)
(* (RetailerOrderProcessor: batch entry point and webhook single-document *)
(* entry point), the Gmail label state of each message, and the PrepWorx  *)
(* shipment path (PrepWorxCheckinProcessor.process_and_store).            *)
(***************************************************************************)
EXTENDS Integers, Sequences, FiniteSets, TLC

(***************************************************************************)
(* Bounds and program constants                                            *)
(***************************************************************************)
\* number of I/O faults (failed fetch, raising query, failing commit,
\* failing label call) the environment may inject in one behaviour
MaxFaults == 2

\* default of the max_emails parameter of process_footlocker_emails
DefaultMaxEmails == 20

\* max_results of the retailer search issued by the gmail_webhook endpoint
WebhookMaxResults == 10

\* values of max_emails a caller passes to the batch entry point
MaxEmailsChoices == {1, DefaultMaxEmails}

\* the two processing runs: a manually triggered batch and the webhook
\* background tasks; each owns its own store session
Runs == {"batch", "webhook"}

NoOrder == [order_number |-> "none", items |-> <<>>]

\* The messages of the mailbox.  sender_query/subject_query are what the
\* server-side search matches, from_footlocker/order_confirmation are the
\* local predicates, decodes tells whether parse_message_to_email_data can
\* decode the body, order_data is the result of parse_email (nothing when
\* the body cannot be decoded).
Documents ==
  << [sender_query |-> TRUE, subject_query |-> TRUE,
      from_footlocker |-> TRUE, order_confirmation |-> TRUE, decodes |-> TRUE,
      order_data |-> [order_number |-> "A",
                      items |-> << [unique_id |-> "u1", size |-> "8", quantity |-> 1],
                                   [unique_id |-> "u2", size |-> "9", quantity |-> 2] >>]],
     [sender_query |-> TRUE, subject_query |-> TRUE,
      from_footlocker |-> TRUE, order_confirmation |-> TRUE, decodes |-> TRUE,
      order_data |-> [order_number |-> "A",
                      items |-> << [unique_id |-> "u2", size |-> "9", quantity |-> 2] >>]],
     [sender_query |-> TRUE, subject_query |-> TRUE,
      from_footlocker |-> TRUE, order_confirmation |-> TRUE, decodes |-> TRUE,
      order_data |-> [order_number |-> "B",
                      items |-> << [unique_id |-> "u3", size |-> "10.5", quantity |-> 1] >>]],
     [sender_query |-> TRUE, subject_query |-> TRUE,
      from_footlocker |-> TRUE, order_confirmation |-> TRUE, decodes |-> TRUE,
      order_data |-> NoOrder],
     [sender_query |-> TRUE, subject_query |-> TRUE,
      from_footlocker |-> TRUE, order_confirmation |-> FALSE, decodes |-> FALSE,
      order_data |-> NoOrder],
     [sender_query |-> TRUE, subject_query |-> TRUE,
      from_footlocker |-> FALSE, order_confirmation |-> TRUE, decodes |-> TRUE,
      order_data |-> [order_number |-> "D",
                      items |-> << [unique_id |-> "u1", size |-> "8", quantity |-> 1] >>]] >>

Docs == 1..Len(Documents)

\* the order in which the search returns messages
DocOrder == [i \in Docs |-> i]

UniqueIds == {"u1", "u2", "u3"}

\* the sourcing leads an upstream workflow may have put into oa_sourcing
Catalog ==
  [u \in UniqueIds |->
     IF u = "u1" THEN [lead_id |-> "L1", product_sku |-> "SKU1"]
     ELSE IF u = "u2" THEN [lead_id |-> "L2", product_sku |-> "SKU2"]
     ELSE [lead_id |-> "L3", product_sku |-> "none"]]

VARIABLES
  purchase_tracker,  \* committed rows of table purchase_tracker
  oa_sourcing,       \* unique_ids that have a row in oa_sourcing
  labels,            \* labels[d]: Gmail labels of message d
  faults,            \* faults injected so far
  pc,                \* pc[r]: position of run r
  message_ids,       \* message_ids[r]: messages still to handle, head = current
  results,           \* results[r]: the batch result dictionary
  pending,           \* pending[r]: rows added to r's session, not committed
  created_count,     \* created_count[r], skipped_count[r]: _process_order
  skipped_count,
  itemLog,           \* itemLog[r]: outcome of each item of the current order
  tagIntent,         \* tagIntent[r]: label the next label call applies
  inHandler,         \* inHandler[r]: the label call is made by the except handler
  snap,              \* snap[r]: purchase_tracker when the current message began
  tagCalls,          \* tagCalls[r]: label calls made for the current message
  docres,            \* docres[r]: what the current message added to the batch result;
                     \* for a webhook task, the outcome of process_single_email
  fetched,           \* fetched[r]: get_message returned the current message
  docFaults,         \* docFaults[r]: faults injected while handling the current message
  processedDocs,     \* messages some earlier handling reported as processed
  checkin,           \* committed rows of table checkin
  asin_bank,         \* committed rows of table asin_bank
  ship_labels,       \* ship_labels[d]: Gmail labels of shipment message d
  ship,              \* the locals of the running process_and_store call
  parser,            \* the message given to parse_email and the call's locals
  recon,             \* a one-item order given to a retailer's _process_*_order
  classify           \* a message given to the predicates of a source

\* the state of the shipment path
shipvars == << checkin, asin_bank, ship_labels, ship >>

\* the state of the purchase path
purchasevars == << purchase_tracker, oa_sourcing, labels, pc, message_ids,
                   results, pending, created_count, skipped_count, itemLog,
                   tagIntent, inHandler, snap, tagCalls, docres, fetched,
                   docFaults, processedDocs >>

\* the state of a parse_email, _process_*_order or classification call
parsevars == << parser, recon, classify >>

vars == << purchasevars, shipvars, parsevars, faults >>

(***************************************************************************)
(* Helpers                                                                 *)
(***************************************************************************)
Min(a, b) == IF a < b THEN a ELSE b

FirstN(s, n) == SubSeq(s, 1, Min(n, Len(s)))

\* the batch result; error_messages counts the error strings, fatal tells
\* that the outer except handler ran, raised that the exception left the
\* entry point
ZeroResult == [total_emails |-> 0, processed |-> 0, skipped_duplicate |-> 0,
               errors |-> 0, error_messages |-> 0, fatal |-> FALSE,
               raised |-> FALSE]

ZeroDoc == [processed |-> 0, skipped_duplicate |-> 0, errors |-> 0]

\* is_footlocker_email and is_order_confirmation_email both hold
Classified(doc) == doc.from_footlocker /\ doc.order_confirmation

\* a search that also leaves out the messages labelled errored
QueryMatchesUntagged(d, lbls) ==
  /\ Documents[d].sender_query
  /\ Documents[d].subject_query
  /\ lbls[d] = {}

\* query of process_footlocker_emails: from:... subject:"..." -label:Processed
QueryMatches(d, lbls) ==
  /\ Documents[d].sender_query
  /\ Documents[d].subject_query
  /\ "processed" \notin lbls[d]

\* GmailService.list_messages_with_query
list_messages_with_query(lbls, max_results) ==
  FirstN(SelectSeq(DocOrder, LAMBDA d : QueryMatches(d, lbls)), max_results)

\* a duplicate check that compares the wrong column
is_order_duplicate_by_lead(store, order_number) ==
  \E i \in 1..Len(store) : store[i].lead_id = order_number

\* a duplicate check that looks at the newest row only
is_order_duplicate_newest(store, order_number) ==
  store # <<>> /\ store[Len(store)].order_number = order_number

\* a check that never finds the order
is_order_duplicate_never(store, order_number) == FALSE

\* RetailerOrderProcessor._is_order_duplicate
is_order_duplicate(store, order_number) ==
  \E i \in 1..Len(store) : store[i].order_number = order_number

\* the PurchaseTracker row of _create_purchase_tracker_record
PurchaseRecord(order_number, item, r) ==
  [order_number |-> order_number,
   lead_id |-> Catalog[item.unique_id].lead_id,
   og_qty |-> item.quantity,
   final_qty |-> item.quantity,
   status |-> "Ordered",
   by |-> r]

\* a commit per row: the rows before the failing one stay
CommitWritesPerRow(rows, ok) == IF ok THEN rows ELSE FirstN(rows, 1)

\* what Session.commit() makes durable: the pending rows, or nothing when it raises
CommitWrites(rows, ok) == IF ok THEN rows ELSE <<>>

CurDoc(r) == Head(message_ids[r])

CurOrder(r) == Documents[CurDoc(r)].order_data

\* success with 0 items
ProcessOrderResultNoCount(ok, created) == ok

\* (success, error_msg) of _process_order: the commit went through and at
\* least one row was created
ProcessOrderResult(ok, created) == ok /\ created > 0

\* the locals of process_and_store before a call
ShipIdle ==
  [pc |-> "idle", doc |-> 0, idx |-> 0, stored_count |-> 0, skipped_count |-> 0,
   errors |-> 0, processed_in_batch |-> {}, session_checkin |-> <<>>,
   session_asin |-> <<>>, success |-> FALSE, label_calls |-> <<>>,
   item_log |-> <<>>, snap |-> <<>>]

(***************************************************************************)
(* Extraction strategies: texts                                            *)
(***************************************************************************)
\* A text is a sequence of one-character strings; None is the empty text,
\* which Python treats as false like None.
None == << >>

Digit == {"0", "1", "2", "3", "4", "5", "6", "7", "8", "9"}

DigitChars == << "0", "1", "2", "3", "4", "5", "6", "7", "8", "9" >>

\* int(c) of one digit
DigitValue(c) == (CHOOSE k \in 1..10 : DigitChars[k] = c) - 1

\* ^\d+$
IsDigits(s) == Len(s) > 0 /\ \A i \in 1..Len(s) : s[i] \in Digit

\* int(s) of a text of digits
RECURSIVE IntOf(_)
IntOf(s) ==
  IF Len(s) = 0 THEN 0
  ELSE 10 * IntOf(SubSeq(s, 1, Len(s) - 1)) + DigitValue(s[Len(s)])

\* str(n) of a natural number
RECURSIVE StrOf(_)
StrOf(n) ==
  IF n < 10 THEN << DigitChars[n + 1] >>
  ELSE Append(StrOf(n \div 10), DigitChars[(n % 10) + 1])

\* ^\d{1,2}$
IsShortInt(s) == Len(s) \in {1, 2} /\ IsDigits(s)

\* ^\d{1,2}\.\d$
IsDecimal(s) ==
  /\ Len(s) \in {3, 4}
  /\ IsDigits(SubSeq(s, 1, Len(s) - 2))
  /\ s[Len(s) - 1] = "."
  /\ s[Len(s)] \in Digit

\* the text without its last character
Front(s) == SubSeq(s, 1, Len(s) - 1)

\* the text ends with the letter, in either case
EndsWith(s, upper, lower) == Len(s) > 0 /\ s[Len(s)] \in {upper, lower}

\* whole sizes a bare number is accepted for
MinWholeSize == 4

MaxWholeSize == 18

\* the quantities accepted
MinQuantity == 1

MaxQuantity == 20

\* FootlockerEmailParser._is_valid_size
is_valid_size(size) ==
  \/ IsDecimal(size)
  \/ /\ IsShortInt(size)
     /\ MinWholeSize <= IntOf(size) /\ IntOf(size) <= MaxWholeSize
  \/ /\ EndsWith(size, "Y", "y")
     /\ (IsShortInt(Front(size)) \/ IsDecimal(Front(size)))
  \/ EndsWith(size, "T", "t") /\ IsShortInt(Front(size))
  \/ EndsWith(size, "C", "c") /\ IsShortInt(Front(size))
  \/ /\ EndsWith(size, "W", "w")
     /\ (IsShortInt(Front(size)) \/ IsDecimal(Front(size)))
  \/ /\ Len(size) > 0
     /\ \A i \in 1..Len(size) : size[i] \in {"S", "M", "L", "X", "s", "m", "l", "x"}
  \/ /\ Len(size) \in {2, 4}
     /\ size[1] \in {"O", "o"} /\ size[2] \in {"S", "s"}
     /\ Len(size) = 4 => (size[3] \in {"F", "f"} /\ size[4] \in {"M", "m"})

\* FootlockerEmailParser._is_valid_quantity
is_valid_quantity(quantity) ==
  /\ IsDigits(quantity)
  /\ MinQuantity <= IntOf(quantity) /\ IntOf(quantity) <= MaxQuantity

\* FootlockerEmailParser._clean_size: "06.0" gives "6", "09.5" gives "9.5"
clean_size(size) ==
  IF IsDecimal(size)
  THEN LET whole == StrOf(IntOf(SubSeq(size, 1, Len(size) - 2))) IN
         IF size[Len(size)] = "0" THEN whole
         ELSE whole \o << ".", size[Len(size)] >>
  ELSE size

\* HibbettEmailParser._is_valid_size: ^\d+(\.\d+)?$
hibbett_is_valid_size(size) ==
  \/ IsDigits(size)
  \/ \E k \in 2..(Len(size) - 1) :
       /\ size[k] = "."
       /\ IsDigits(SubSeq(size, 1, k - 1))
       /\ IsDigits(SubSeq(size, k + 1, Len(size)))

\* str.replace('.0', ''): every occurrence of ".0" is taken out, left to right
RECURSIVE RemoveDotZero(_)
RemoveDotZero(s) ==
  IF Len(s) < 2 THEN s
  ELSE IF s[1] = "." /\ s[2] = "0" THEN RemoveDotZero(SubSeq(s, 3, Len(s)))
  ELSE << s[1] >> \o RemoveDotZero(SubSeq(s, 2, Len(s)))

\* HibbettEmailParser._clean_size
hibbett_clean_size(size) ==
  IF Len(size) >= 2 /\ size[Len(size) - 1] = "." /\ size[Len(size)] = "0"
  THEN RemoveDotZero(size)
  ELSE size

\* SnipesEmailParser._clean_size: size[:-2] of a size that ends with ".0"
snipes_clean_size(size) ==
  IF Len(size) >= 2 /\ size[Len(size) - 1] = "." /\ size[Len(size)] = "0"
  THEN SubSeq(size, 1, Len(size) - 2)
  ELSE size

(***************************************************************************)
(* Shipment messages                                                       *)
(***************************************************************************)
\* ^-?\d+$ : the texts int() converts that a quantity cell holds
IsSignedInt(s) ==
  IF Len(s) > 0 /\ s[1] = "-" THEN IsDigits(Tail(s)) ELSE IsDigits(s)

\* int(s) of such a text
SignedIntOf(s) == IF s[1] = "-" THEN 0 - IntOf(Tail(s)) ELSE IntOf(s)

\* a quantity that leaves out the adjustments
QuantityClamped(s) == IF s[1] = "-" THEN 0 ELSE IntOf(s)

\* quantity = int(clean_qty)
QuantityOf(s) == SignedIntOf(s)

\* The rows of the item table of each shipment message: what the ASIN
\* pattern and the size patterns find in the first cell ("none": nothing)
\* and the text of the second cell.  order_number is the shipment number of
\* the subject.
ShipRows ==
  << [order_number |-> "P1",
      rows |-> << [item_name |-> "n1", asin |-> "B1", quantity_text |-> << "2" >>, size |-> "6.5"],
                  [item_name |-> "n1", asin |-> "B1", quantity_text |-> << "2" >>, size |-> "6.5"],
                  [item_name |-> "n4", asin |-> "B1", quantity_text |-> << "x" >>, size |-> "6.5"],
                  [item_name |-> "n2", asin |-> "B2", quantity_text |-> << "0" >>, size |-> "9"] >>],
     [order_number |-> "P2",
      rows |-> << [item_name |-> "n1", asin |-> "B1", quantity_text |-> << "2" >>, size |-> "6.5"],
                  [item_name |-> "n5", asin |-> "none", quantity_text |-> << "1" >>, size |-> "none"],
                  [item_name |-> "n6", asin |-> "B2", quantity_text |-> << "1" >>, size |-> "10"],
                  [item_name |-> "n3", asin |-> "B3", quantity_text |-> << "-", "1" >>, size |-> "none"] >>] >>

\* _parse_item_from_table_cells: << >> for a row that gives no item
parse_item_from_table_cells(row) ==
  IF row.asin = "none" \/ ~IsSignedInt(row.quantity_text) THEN << >>
  ELSE << [item_name |-> row.item_name, asin |-> row.asin,
           quantity |-> QuantityOf(row.quantity_text), size |-> row.size] >>

\* _extract_items_from_html: the items of the rows, in the order of the rows
RECURSIVE extract_items_from_html(_)
extract_items_from_html(rows) ==
  IF rows = << >> THEN << >>
  ELSE parse_item_from_table_cells(Head(rows)) \o extract_items_from_html(Tail(rows))

\* The shipment messages: the PrepWorxShipmentData parse_email extracts.
ShipDocuments ==
  [d \in 1..Len(ShipRows) |->
     [order_number |-> ShipRows[d].order_number,
      items |-> extract_items_from_html(ShipRows[d].rows)]]

ShipDocs == 1..Len(ShipDocuments)

(***************************************************************************)
(* Extraction strategies: the messages given to parse_email                *)
(***************************************************************************)
MaxSpans == 4

MaxAnchors == 2

MaxRows == 2

\* the order number _extract_order_number finds, or None
OrderNumbers == {None, << "P", "7" >>}

\* the spans of a Foot Locker message: the text of the span and the words
\* "Size" and "Qty" its parent's text contains
SpanKinds ==
  {[ctx |-> {"Size"}, text |-> t] :
     t \in {<< "8" >>, << "9" >>, << "1" >>, << "9", "9", ".", "0" >>}}
  \cup {[ctx |-> {"Qty"}, text |-> t] : t \in {<< "1" >>, << "2" >>, << "0" >>}}

\* the product rows of a Hibbett or Snipes message: what the size and
\* quantity patterns capture in the row, None when the pattern does not match
RowKinds ==
  [size : {None, << "1", "3" >>, << "9", "9", ".", "0" >>,
           << "0", "6", ".", "0" >>, << "1", "0", ".", "5" >>,
           << "1", "4", ".", "0" >>},
   qty : {None, << "0" >>, << "4" >>}]

SeqsUpTo(S, n) == UNION {[1..k -> S] : k \in 0..n}

NoEmail == [source |-> "none", order_number |-> None, anchors |-> 0,
            spans |-> << >>, rows |-> << >>]

Emails ==
  {[source |-> "footlocker", order_number |-> o, anchors |-> a,
    spans |-> sp, rows |-> << >>] :
     o \in OrderNumbers, a \in 0..MaxAnchors, sp \in SeqsUpTo(SpanKinds, MaxSpans)}
  \cup
  {[source |-> src, order_number |-> o, anchors |-> 0,
    spans |-> << >>, rows |-> rw] :
     src \in {"hibbett", "snipes", "prepworx"}, o \in OrderNumbers,
     rw \in SeqsUpTo(RowKinds, MaxRows)}

\* the unique id in the image URL of the k-th product image
AnchorIds == << "u1", "u2", "u3" >>

\* parse_email returned None
Failure == [ok |-> FALSE, order_number |-> None, items |-> << >>]

\* the locals of a parse_email call that has not begun
ParserIdle(email) ==
  [email |-> email, pc |-> "start", data |-> << >>, idx |-> 1, used |-> {},
   items |-> << >>, assigned |-> << >>, result |-> Failure]

(***************************************************************************)
(* Extraction strategies: size/quantity pairing                            *)
(***************************************************************************)
\* FootlockerEmailParser._extract_all_size_quantity_data
RECURSIVE extract_all_size_quantity_data(_)
extract_all_size_quantity_data(spans) ==
  IF spans = << >> THEN << >>
  ELSE LET span == spans[Len(spans)]
           size == IF "Size" \in span.ctx /\ is_valid_size(span.text)
                   THEN << [type |-> "size", value |-> span.text] >> ELSE << >>
           qty == IF "Qty" \in span.ctx /\ is_valid_quantity(span.text)
                  THEN << [type |-> "quantity", value |-> span.text] >> ELSE << >>
       IN extract_all_size_quantity_data(Front(spans)) \o size \o qty

Abs(x) == IF x < 0 THEN -x ELSE x

\* a quantity counts as near a size within this many positions
PairWindow == 3

\* the first quantity fragment within the window of fragment i, 0 when none
NearQuantity(data, i) ==
  LET js == {j \in 1..Len(data) :
               data[j].type = "quantity" /\ Abs(i - j) <= PairWindow}
  IN IF js = {} THEN 0 ELSE CHOOSE j \in js : \A k \in js : j <= k

\* available_pairs: the size fragments whose pair is not in used_size_quantity
AvailablePairs(data, used) ==
  {i \in 1..Len(data) :
     /\ data[i].type = "size"
     /\ NearQuantity(data, i) # 0
     /\ << data[i].value, data[NearQuantity(data, i)].value >> \notin used}

\* the first fragment of the type, 0 when none
FirstOfType(data, type) ==
  LET is == {i \in 1..Len(data) : data[i].type = type}
  IN IF is = {} THEN 0 ELSE CHOOSE i \in is : \A k \in is : i <= k

\* the positions of the size and the quantity fragment an anchor receives:
\* the available pair of least distance, the earliest among equals, and
\* without an available pair the first size and the first quantity
MatchPositions(data, used) ==
  LET av == AvailablePairs(data, used)
      dist(i) == Abs(i - NearQuantity(data, i))
  IN IF av # {}
     THEN LET best == CHOOSE i \in av :
                        \A k \in av : dist(i) < dist(k) \/ (dist(i) = dist(k) /\ i <= k)
          IN << best, NearQuantity(data, best) >>
     ELSE << FirstOfType(data, "size"), FirstOfType(data, "quantity") >>

ValueAt(data, p) == IF p = 0 THEN None ELSE data[p].value

\* FootlockerEmailParser._find_matching_size_quantity_advanced
find_matching_size_quantity_advanced(data, used) ==
  LET p == MatchPositions(data, used)
  IN << ValueAt(data, p[1]), ValueAt(data, p[2]) >>

\* a result that is returned without looking at the items
ParseResultPartial(order_number, items) ==
  IF order_number = None THEN Failure
  ELSE [ok |-> TRUE, order_number |-> order_number, items |-> items]

\* parse_email: None without an order number or without items
ParseResult(order_number, items) ==
  IF order_number = None \/ items = << >> THEN Failure
  ELSE [ok |-> TRUE, order_number |-> order_number, items |-> items]

(***************************************************************************)
(* Reconciliation of one item by the retailers' record constructors        *)
(***************************************************************************)
\* columns of table oa_sourcing: those the lead queries and the record
\* constructors read (the table has no size column)
OASourcingColumns ==
  {"id", "lead_id", "retailer_id", "product_name", "product_sku", "unique_id", "rsp"}

\* the columns of table purchase_tracker
PurchaseTrackerColumns ==
  {"id", "oa_sourcing_id", "asin_bank_id", "lead_id", "date", "platform",
   "order_number", "og_qty", "final_qty", "rsp", "address", "shipped_to_pw",
   "arrived", "checked_in", "shipped_out", "delivery_date", "status",
   "location", "in_bound", "tracking", "outbound_name", "fba_shipment",
   "fba_msku", "concat", "audited", "cancelled_qty",
   "amt_of_cancelled_qty_credit_card", "amt_of_cancelled_qty_gift_card",
   "expected_refund_amount", "amount_refunded", "refund_status",
   "refund_method", "date_of_refund", "notes", "validation_bank"}

RetailerSources == {"footlocker", "snipes", "finishline"}

\* the oa_sourcing columns the lead query of the source filters on
LeadFilterColumns(source) ==
  IF source = "snipes" THEN {"unique_id", "size"} ELSE {"unique_id"}

\* the asin_bank columns the asin query of the source filters on
AsinFilterColumns(source) ==
  IF source = "snipes" THEN {"lead_id"} ELSE {"lead_id", "size"}

\* the keyword arguments the source passes to PurchaseTracker(...)
RecordKeywords(source) ==
  IF source = "footlocker"
  THEN {"oa_sourcing_id", "asin_bank_id", "lead_id", "date", "platform",
        "order_number", "og_qty", "final_qty", "rsp", "fba_msku", "status",
        "audited"}
  ELSE IF source = "snipes"
  THEN {"lead_id", "unique_id", "product_name", "size", "retailer_id",
        "order_number", "order_date", "purchase_quantity", "asin", "fba_msku",
        "platform"}
  ELSE {"oa_sourcing_id", "asin_bank_id", "lead_id", "unique_id",
        "product_name", "size", "retailer_id", "order_number", "order_date",
        "purchase_quantity", "asin", "fba_msku", "platform"}

\* the first asin_bank row the asin query of the source finds, 0 when none
AsinFor(source, bank, lead_id, size) ==
  LET is == {i \in 1..Len(bank) :
               /\ bank[i].lead_id = lead_id
               /\ "size" \in AsinFilterColumns(source) => bank[i].size = size}
  IN IF is = {} THEN 0 ELSE bank[CHOOSE i \in is : \A k \in is : i <= k].id

NoRow == [lead_id |-> "none", asin_bank_id |-> 0, og_qty |-> 0, final_qty |-> 0,
          status |-> "none", order_number |-> "none", fba_msku |-> << >>]

\* a label with the product_sku as it is
FbaMskuNoFallback(source, order_number, item, lead) ==
  << item.size, "-", lead.product_sku, "-", order_number >>

\* fba_msku: f"{item.size}-{sku_upc}-{order_number}" with sku_upc =
\* oa_sourcing.product_sku or "UNKNOWN"; the Snipes constructor has
\* f"{oa_sourcing.lead_id}-FBA"
FbaMsku(source, order_number, item, lead) ==
  IF source = "snipes" THEN << lead.lead_id, "-", "FBA" >>
  ELSE << item.size, "-",
          IF lead.product_sku = "none" THEN "UNKNOWN" ELSE lead.product_sku,
          "-", order_number >>

\* _create_purchase_tracker_record and its Snipes and Finish Line variants:
\* a filter on a column oa_sourcing does not have, or a keyword argument
\* that is no column of purchase_tracker, raises inside the try block and
\* the constructor returns (False, message)
create_purchase_tracker_record(source, order_number, item, leads, bank) ==
  IF ~(LeadFilterColumns(source) \subseteq OASourcingColumns)
  THEN [success |-> FALSE, row |-> NoRow]
  ELSE IF item.unique_id \notin leads
  THEN [success |-> FALSE, row |-> NoRow]
  ELSE IF ~(RecordKeywords(source) \subseteq PurchaseTrackerColumns)
  THEN [success |-> FALSE, row |-> NoRow]
  ELSE [success |-> TRUE,
        row |-> [lead_id |-> Catalog[item.unique_id].lead_id,
                 asin_bank_id |-> AsinFor(source, bank,
                                          Catalog[item.unique_id].lead_id, item.size),
                 og_qty |-> item.quantity, final_qty |-> item.quantity,
                 status |-> "Ordered", order_number |-> order_number,
                 fba_msku |-> FbaMsku(source, order_number, item,
                                      Catalog[item.unique_id])]]

\* the asin_bank tables of the inputs
ReconBanks ==
  {<< >>, << [id |-> 1, lead_id |-> "L1", asin |-> "B1", size |-> "8"] >>}

\* the inputs: the retailer source, whether its retailers row exists, the
\* leads in oa_sourcing, the asin_bank and the item of the order
OrderInputs ==
  [source : RetailerSources, retailer : BOOLEAN, leads : SUBSET UniqueIds,
   bank : ReconBanks,
   item : [unique_id : UniqueIds, size : {"8", "9"}, quantity : {1, 2}]]

NoOrderInput ==
  [source |-> "none", retailer |-> FALSE, leads |-> {}, bank |-> << >>,
   item |-> [unique_id |-> "u1", size |-> "8", quantity |-> 1]]

ReconIdle(input) ==
  [input |-> input, pc |-> "start", success |-> FALSE, rows |-> << >>]

(***************************************************************************)
(* Classification: the identity and intent predicates of each source       *)
(***************************************************************************)
UpperChars == << "A", "B", "C", "D", "E", "F", "G", "H", "I", "J", "K", "L", "M",
                "N", "O", "P", "Q", "R", "S", "T", "U", "V", "W", "X", "Y", "Z" >>

LowerChars == << "a", "b", "c", "d", "e", "f", "g", "h", "i", "j", "k", "l", "m",
                "n", "o", "p", "q", "r", "s", "t", "u", "v", "w", "x", "y", "z" >>

\* str.lower()
Lower(s) ==
  [i \in 1..Len(s) |->
     IF \E k \in 1..26 : UpperChars[k] = s[i]
     THEN LowerChars[CHOOSE k \in 1..26 : UpperChars[k] = s[i]]
     ELSE s[i]]

\* str.upper()
Upper(s) ==
  [i \in 1..Len(s) |->
     IF \E k \in 1..26 : LowerChars[k] = s[i]
     THEN UpperChars[CHOOSE k \in 1..26 : LowerChars[k] = s[i]]
     ELSE s[i]]

\* sub in s
Contains(s, sub) ==
  \E i \in 1..(Len(s) - Len(sub) + 1) : SubSeq(s, i, i + Len(sub) - 1) = sub

\* re.search(pattern, s, re.IGNORECASE) of a pattern without metacharacters
SearchIgnoreCase(pattern, s) == Contains(Lower(s), Lower(pattern))

FOOTLOCKER_FROM_EMAIL ==
  << "a", "c", "c", "o", "u", "n", "t", "s", "e", "r", "v", "i",
     "c", "e", "s", "@", "e", "m", ".", "f", "o", "o", "t", "l",
     "o", "c", "k", "e", "r", ".", "c", "o", "m" >>

FOOTLOCKER_FROM_PATTERN ==
  << "f", "o", "o", "t", "l", "o", "c", "k", "e", "r" >>

CHAMPS_FROM_EMAIL ==
  << "a", "c", "c", "o", "u", "n", "t", "s", "e", "r", "v", "i",
     "c", "e", "s", "@", "e", "m", ".", "c", "h", "a", "m", "p",
     "s", "s", "p", "o", "r", "t", "s", ".", "c", "o", "m" >>

CHAMPS_FROM_PATTERN ==
  << "c", "h", "a", "m", "p", "s" >>

DICKS_FROM_EMAIL ==
  << "f", "r", "o", "m", "@", "n", "o", "t", "i", "f", "i", "c",
     "a", "t", "i", "o", "n", "s", ".", "d", "c", "s", "g", ".",
     "c", "o", "m" >>

DICKS_FROM_PATTERNS == {<< "d", "i", "c", "k", "s" >>,
  << "d", "c", "s", "g" >>}

THANK_YOU_PATTERN ==
  << "T", "h", "a", "n", "k", " ", "y", "o", "u", " ", "f", "o",
     "r", " ", "y", "o", "u", "r", " ", "o", "r", "d", "e", "r" >>

HIBBETT_FROM_EMAIL ==
  << "h", "i", "b", "b", "e", "t", "t", "@", "e", "m", "a", "i",
     "l", ".", "h", "i", "b", "b", "e", "t", "t", ".", "c", "o",
     "m" >>

HIBBETT_SUBJECT_PATTERN ==
  << "C", "o", "n", "f", "i", "r", "m", "a", "t", "i", "o", "n",
     " ", "o", "f", " ", "y", "o", "u", "r", " ", "O", "r", "d",
     "e", "r" >>

SHOEPALACE_FROM_EMAIL ==
  << "s", "t", "o", "r", "e", "+", "8", "5", "2", "3", "3", "7",
     "6", "@", "t", ".", "s", "h", "o", "p", "i", "f", "y", "e",
     "m", "a", "i", "l", ".", "c", "o", "m" >>

SHOEPALACE_SUBJECT_PATTERN ==
  << "c", "o", "n", "f", "i", "r", "m", "e", "d" >>

SNIPES_FROM_EMAIL ==
  << "n", "o", "-", "r", "e", "p", "l", "y", "@", "s", "n", "i",
     "p", "e", "s", "u", "s", "a", ".", "c", "o", "m" >>

SNIPES_SUBJECT_PATTERN ==
  << "c", "o", "n", "f", "i", "r", "m", "a", "t", "i", "o", "n",
     " ", "o", "f", " ", "y", "o", "u", "r", " ", "s", "n", "i",
     "p", "e", "s", " ", "o", "r", "d", "e", "r" >>

FINISHLINE_FROM_EMAIL ==
  << "f", "i", "n", "i", "s", "h", "l", "i", "n", "e", "@", "n",
     "o", "t", "i", "f", "i", "c", "a", "t", "i", "o", "n", "s",
     ".", "f", "i", "n", "i", "s", "h", "l", "i", "n", "e", ".",
     "c", "o", "m" >>

FINISHLINE_SUBJECT_PATTERN ==
  << "y", "o", "u", "r", " ", "o", "r", "d", "e", "r", " ", "i",
     "s", " ", "o", "f", "f", "i", "c", "i", "a", "l", "!" >>

SHOPSIMON_FROM_EMAIL ==
  << "o", "n", "l", "i", "n", "e", "s", "u", "p", "p", "o", "r",
     "t", "@", "s", "h", "o", "p", "s", "i", "m", "o", "n", ".",
     "c", "o", "m" >>

SHOPSIMON_SUBJECT_PATTERN ==
  << "y", "o", "u", "r", " ", "s", "h", "o", "p", "s", "i", "m",
     "o", "n", " ", "o", "r", "d", "e", "r", " ", "i", "s", " ",
     "c", "o", "n", "f", "i", "r", "m", "e", "d" >>

PREPWORX_FROM_EMAIL ==
  << "b", "e", "t", "a", "@", "p", "r", "e", "p", "w", "o", "r",
     "x", ".", "i", "o" >>

PREPWORX_FROM_PATTERN ==
  << "p", "r", "e", "p", "w", "o", "r", "x" >>

INBOUND ==
  << "i", "n", "b", "o", "u", "n", "d" >>

HAS_BEEN_PROCESSED ==
  << "h", "a", "s", " ", "b", "e", "e", "n", " ", "p", "r", "o",
     "c", "e", "s", "s", "e", "d" >>

\* re.search(r"Inbound.*has been processed", s, re.IGNORECASE)
SearchInbound(s) ==
  \E i \in 1..Len(s) : \E j \in (i + Len(INBOUND))..Len(s) :
    /\ SubSeq(Lower(s), i, i + Len(INBOUND) - 1) = INBOUND
    /\ SubSeq(Lower(s), j, j + Len(HAS_BEEN_PROCESSED) - 1) = HAS_BEEN_PROCESSED

Sources == {"footlocker", "champs", "dicks", "hibbett", "shoepalace", "snipes",
            "finishline", "shopsimon", "prepworx"}

\* is_<source>_email
is_source_email(source, sender) ==
  CASE source = "footlocker" ->
         \/ Contains(Lower(sender), Lower(FOOTLOCKER_FROM_EMAIL))
         \/ SearchIgnoreCase(FOOTLOCKER_FROM_PATTERN, Lower(sender))
    [] source = "champs" ->
         \/ Contains(Lower(sender), Lower(CHAMPS_FROM_EMAIL))
         \/ SearchIgnoreCase(CHAMPS_FROM_PATTERN, Lower(sender))
    [] source = "dicks" ->
         \/ Contains(Lower(sender), Lower(DICKS_FROM_EMAIL))
         \/ \E p \in DICKS_FROM_PATTERNS : SearchIgnoreCase(p, Lower(sender))
    [] source = "hibbett" -> Contains(sender, HIBBETT_FROM_EMAIL)
    [] source = "shoepalace" -> Contains(sender, SHOEPALACE_FROM_EMAIL)
    [] source = "snipes" -> Contains(Lower(sender), SNIPES_FROM_EMAIL)
    [] source = "finishline" -> Contains(Lower(sender), FINISHLINE_FROM_EMAIL)
    [] source = "shopsimon" -> Contains(Lower(sender), SHOPSIMON_FROM_EMAIL)
    [] source = "prepworx" ->
         \/ Contains(Lower(sender), Lower(PREPWORX_FROM_EMAIL))
         \/ SearchIgnoreCase(PREPWORX_FROM_PATTERN, Lower(sender))

\* is_order_confirmation_email, and is_inbound_processed_email of PrepWorx
is_order_confirmation_email(source, subject) ==
  CASE source \in {"footlocker", "champs", "dicks"} ->
         SearchIgnoreCase(THANK_YOU_PATTERN, Lower(subject))
    [] source = "hibbett" -> Contains(subject, HIBBETT_SUBJECT_PATTERN)
    [] source = "shoepalace" -> Contains(Lower(subject), SHOEPALACE_SUBJECT_PATTERN)
    [] source = "snipes" -> Contains(Lower(subject), SNIPES_SUBJECT_PATTERN)
    [] source = "finishline" -> Contains(Lower(subject), FINISHLINE_SUBJECT_PATTERN)
    [] source = "shopsimon" -> Contains(Lower(subject), SHOPSIMON_SUBJECT_PATTERN)
    [] source = "prepworx" -> subject # None /\ SearchInbound(subject)

\* the sender address and the confirmation subject of each source
SenderOf(source) ==
  CASE source = "footlocker" -> FOOTLOCKER_FROM_EMAIL
    [] source = "champs" -> CHAMPS_FROM_EMAIL
    [] source = "dicks" -> DICKS_FROM_EMAIL
    [] source = "hibbett" -> HIBBETT_FROM_EMAIL
    [] source = "shoepalace" -> SHOEPALACE_FROM_EMAIL
    [] source = "snipes" -> SNIPES_FROM_EMAIL
    [] source = "finishline" -> FINISHLINE_FROM_EMAIL
    [] source = "shopsimon" -> SHOPSIMON_FROM_EMAIL
    [] source = "prepworx" -> PREPWORX_FROM_EMAIL

SubjectOf(source) ==
  CASE source \in {"footlocker", "champs", "dicks"} -> THANK_YOU_PATTERN
    [] source = "hibbett" -> HIBBETT_SUBJECT_PATTERN
    [] source = "shoepalace" -> SHOEPALACE_SUBJECT_PATTERN
    [] source = "snipes" -> SNIPES_SUBJECT_PATTERN
    [] source = "finishline" -> FINISHLINE_SUBJECT_PATTERN
    [] source = "shopsimon" -> SHOPSIMON_SUBJECT_PATTERN
    [] source = "prepworx" -> INBOUND \o << " " >> \o HAS_BEEN_PROCESSED

\* a text as it is, in lower case, in upper case, and a text of another sender
OtherText == << "n", "e", "w", "s" >>

Casings(t) == {t, Lower(t), Upper(t), OtherText}

\* the messages given to the predicates of a source
Messages ==
  {[source |-> src, sender |-> sn, subject |-> sb] :
     src \in Sources, sn \in UNION {Casings(SenderOf(x)) : x \in Sources},
     sb \in UNION {Casings(SubjectOf(x)) : x \in Sources}}

NoMessage == [source |-> "none", sender |-> None, subject |-> None]

\* the locals of a classification that has not begun
ClassifyIdle(msg) == [msg |-> msg, pc |-> "start", identity |-> FALSE, intent |-> FALSE]

(***************************************************************************)
(* Initial state                                                           *)
(***************************************************************************)
InitStores(leads, f) ==
  /\ purchase_tracker = <<>>
  /\ oa_sourcing = leads
  /\ labels = [d \in Docs |-> {}]
  /\ faults = f
  /\ pc = [r \in Runs |-> "idle"]
  /\ message_ids = [r \in Runs |-> <<>>]
  /\ results = [r \in Runs |-> ZeroResult]
  /\ pending = [r \in Runs |-> <<>>]
  /\ created_count = [r \in Runs |-> 0]
  /\ skipped_count = [r \in Runs |-> 0]
  /\ itemLog = [r \in Runs |-> <<>>]
  /\ tagIntent = [r \in Runs |-> "none"]
  /\ inHandler = [r \in Runs |-> FALSE]
  /\ snap = [r \in Runs |-> <<>>]
  /\ tagCalls = [r \in Runs |-> <<>>]
  /\ docres = [r \in Runs |-> ZeroDoc]
  /\ fetched = [r \in Runs |-> FALSE]
  /\ docFaults = [r \in Runs |-> 0]
  /\ processedDocs = {}
  /\ checkin = <<>>
  /\ asin_bank = << [id |-> 1, lead_id |-> "L2", asin |-> "B2", size |-> "none"] >>
  /\ ship_labels = [d \in ShipDocs |-> {}]
  /\ ship = ShipIdle

InitWith(leads, f) ==
  /\ InitStores(leads, f)
  /\ parser = ParserIdle(NoEmail)
  /\ recon = ReconIdle(NoOrderInput)
  /\ classify = ClassifyIdle(NoMessage)

Init == InitWith({"u1"}, 0)

(***************************************************************************)
(* Purchase path: discovery                                                *)
(***************************************************************************)
AllIdle == \A q \in Runs : pc[q] = "idle"

\* a counter of the result goes up; every counted error comes with a string
Bump(res, field) ==
  IF field = "errors" /\ "error_messages" \in DOMAIN res
  THEN [res EXCEPT !.errors = @ + 1, !.error_messages = @ + 1]
  ELSE [res EXCEPT ![field] = @ + 1]

\* an outer handler that lets the exception go on
OuterExceptReraise(res) == [res EXCEPT !.fatal = TRUE, !.raised = TRUE]

\* the outer except handler of the batch: the error string is kept and the
\* result is returned
OuterExcept(res) == [res EXCEPT !.fatal = TRUE, !.error_messages = @ + 1]

\* an I/O fault hits run r
Fault(r) ==
  /\ faults < MaxFaults
  /\ faults' = faults + 1
  /\ docFaults' = [docFaults EXCEPT ![r] = @ + 1]

NoFault == UNCHANGED << faults, docFaults >>

\* the per-message bookkeeping starts afresh
ResetDoc(r) ==
  /\ docres' = [docres EXCEPT ![r] = ZeroDoc]
  /\ tagCalls' = [tagCalls EXCEPT ![r] = <<>>]
  /\ itemLog' = [itemLog EXCEPT ![r] = <<>>]
  /\ fetched' = [fetched EXCEPT ![r] = FALSE]
  /\ docFaults' = [docFaults EXCEPT ![r] = 0]

\* process_footlocker_emails up to the start of the loop over message_ids
StartBatchWith(max_emails) ==
  /\ pc["batch"] = "idle"
  /\ LET ids == list_messages_with_query(labels, max_emails) IN
       /\ message_ids' = [message_ids EXCEPT !["batch"] = ids]
       /\ results' = [results EXCEPT !["batch"] =
                        [ZeroResult EXCEPT !.total_emails = Len(ids)]]
       /\ pc' = [pc EXCEPT !["batch"] = IF ids = <<>> THEN "done" ELSE "fetch"]
  /\ ResetDoc("batch")
  /\ UNCHANGED << purchase_tracker, oa_sourcing, labels, faults, pending,
                  created_count, skipped_count, tagIntent, inHandler, snap,
                  processedDocs, shipvars, parsevars >>

\* a batch run with any of the max_emails values
StartBatch == \E max_emails \in MaxEmailsChoices : StartBatchWith(max_emails)

\* gmail_webhook: search for unprocessed retailer messages and queue one
\* process_email_notification task per message
WebhookNotify ==
  /\ pc["webhook"] = "idle"
  /\ LET ids == list_messages_with_query(labels, WebhookMaxResults) IN
       /\ message_ids' = [message_ids EXCEPT !["webhook"] = ids]
       /\ pc' = [pc EXCEPT !["webhook"] = IF ids = <<>> THEN "done" ELSE "fetch"]
  /\ results' = [results EXCEPT !["webhook"] = ZeroResult]
  /\ ResetDoc("webhook")
  /\ UNCHANGED << purchase_tracker, oa_sourcing, labels, faults, pending,
                  created_count, skipped_count, tagIntent, inHandler, snap,
                  processedDocs, shipvars, parsevars >>

\* the sequential scheduling of section 5: a run starts only when no other runs
SeqStartBatch == AllIdle /\ StartBatch

SeqWebhookNotify == AllIdle /\ WebhookNotify

(***************************************************************************)
(* Purchase path: one message                                              *)
(***************************************************************************)
\* get_message, parse_message_to_email_data, is_footlocker_email,
\* is_order_confirmation_email and parse_email of the current message
FetchAndParse(r) ==
  /\ pc[r] = "fetch"
  /\ snap' = [snap EXCEPT ![r] = purchase_tracker]
  /\ tagCalls' = [tagCalls EXCEPT ![r] = <<>>]
  /\ itemLog' = [itemLog EXCEPT ![r] = <<>>]
  /\ inHandler' = [inHandler EXCEPT ![r] =
                     r = "batch" /\ ~Documents[CurDoc(r)].decodes]
  /\ LET doc == Documents[CurDoc(r)] IN
       \/ \* get_message returns None: continue / return
          /\ faults < MaxFaults
          /\ faults' = faults + 1
          /\ docFaults' = [docFaults EXCEPT ![r] = 1]
          /\ fetched' = [fetched EXCEPT ![r] = FALSE]
          /\ pc' = [pc EXCEPT ![r] = "doc_done"]
          /\ docres' = [docres EXCEPT ![r] = ZeroDoc]
          /\ UNCHANGED << results, tagIntent >>
       \/ \* parse_message_to_email_data raises: the batch's handler counts an
          \* error and asks for the errored label, the webhook task ends
          /\ ~doc.decodes
          /\ docFaults' = [docFaults EXCEPT ![r] = 0]
          /\ fetched' = [fetched EXCEPT ![r] = TRUE]
          /\ results' = [results EXCEPT ![r] =
                           IF r = "batch" THEN Bump(@, "errors") ELSE @]
          /\ docres' = [docres EXCEPT ![r] =
                          IF r = "batch" THEN Bump(ZeroDoc, "errors") ELSE ZeroDoc]
          /\ tagIntent' = [tagIntent EXCEPT ![r] =
                             IF r = "batch" THEN "errored" ELSE @]
          /\ pc' = [pc EXCEPT ![r] = IF r = "batch" THEN "tag" ELSE "doc_done"]
          /\ UNCHANGED faults
       \/ \* not from the retailer, or not an order confirmation
          /\ doc.decodes
          /\ ~Classified(doc)
          /\ docFaults' = [docFaults EXCEPT ![r] = 0]
          /\ fetched' = [fetched EXCEPT ![r] = TRUE]
          /\ pc' = [pc EXCEPT ![r] = "doc_done"]
          /\ docres' = [docres EXCEPT ![r] = ZeroDoc]
          /\ UNCHANGED << results, tagIntent, faults >>
       \/ \* parse_email returns None
          /\ doc.decodes /\ Classified(doc)
          /\ doc.order_data = NoOrder
          /\ docFaults' = [docFaults EXCEPT ![r] = 0]
          /\ fetched' = [fetched EXCEPT ![r] = TRUE]
          /\ results' = [results EXCEPT ![r] =
                           IF r = "batch" THEN Bump(@, "errors") ELSE @]
          /\ docres' = [docres EXCEPT ![r] = Bump(ZeroDoc, "errors")]
          /\ tagIntent' = [tagIntent EXCEPT ![r] = "errored"]
          /\ pc' = [pc EXCEPT ![r] = "tag"]
          /\ UNCHANGED faults
       \/ \* an order was extracted
          /\ doc.decodes /\ Classified(doc)
          /\ doc.order_data # NoOrder
          /\ docFaults' = [docFaults EXCEPT ![r] = 0]
          /\ fetched' = [fetched EXCEPT ![r] = TRUE]
          /\ pc' = [pc EXCEPT ![r] = "dup_check"]
          /\ docres' = [docres EXCEPT ![r] = ZeroDoc]
          /\ UNCHANGED << results, tagIntent, faults >>
  /\ UNCHANGED << purchase_tracker, oa_sourcing, labels, message_ids, pending,
                  created_count, skipped_count, processedDocs, shipvars, parsevars >>

\* the duplicate check that precedes _process_order
DupCheck(r) ==
  /\ pc[r] = "dup_check"
  /\ IF is_order_duplicate(purchase_tracker, CurOrder(r).order_number)
     THEN /\ results' = [results EXCEPT ![r] =
                           IF r = "batch" THEN Bump(@, "skipped_duplicate") ELSE @]
          /\ docres' = [docres EXCEPT ![r] = Bump(ZeroDoc, "skipped_duplicate")]
          /\ tagIntent' = [tagIntent EXCEPT ![r] = "processed"]
          /\ pc' = [pc EXCEPT ![r] = "tag"]
          /\ UNCHANGED << created_count, skipped_count >>
     ELSE /\ created_count' = [created_count EXCEPT ![r] = 0]
          /\ skipped_count' = [skipped_count EXCEPT ![r] = 0]
          /\ pc' = [pc EXCEPT ![r] = "items"]
          /\ UNCHANGED << results, docres, tagIntent >>
  /\ UNCHANGED << purchase_tracker, oa_sourcing, labels, faults, message_ids,
                  pending, itemLog, inHandler, snap, tagCalls, fetched,
                  docFaults, processedDocs, shipvars, parsevars >>

\* _create_purchase_tracker_record for the next item of the order
CreateRecord(r) ==
  /\ pc[r] = "items"
  /\ Len(itemLog[r]) < Len(CurOrder(r).items)
  /\ LET item == CurOrder(r).items[Len(itemLog[r]) + 1] IN
       \/ \* a lead with this unique_id exists: the row is added to the session
          /\ item.unique_id \in oa_sourcing
          /\ pending' = [pending EXCEPT ![r] =
                Append(@, PurchaseRecord(CurOrder(r).order_number, item, r))]
          /\ created_count' = [created_count EXCEPT ![r] = @ + 1]
          /\ itemLog' = [itemLog EXCEPT ![r] = Append(@, "created")]
          /\ NoFault
          /\ UNCHANGED skipped_count
       \/ \* no lead: (False, "No OA sourcing lead found ...")
          /\ item.unique_id \notin oa_sourcing
          /\ skipped_count' = [skipped_count EXCEPT ![r] = @ + 1]
          /\ itemLog' = [itemLog EXCEPT ![r] = Append(@, "no_lead")]
          /\ NoFault
          /\ UNCHANGED << pending, created_count >>
       \/ \* a query or the add raises: caught, (False, error_msg)
          /\ Fault(r)
          /\ skipped_count' = [skipped_count EXCEPT ![r] = @ + 1]
          /\ itemLog' = [itemLog EXCEPT ![r] = Append(@, "raised")]
          /\ UNCHANGED << pending, created_count >>
  /\ UNCHANGED << purchase_tracker, oa_sourcing, labels, pc, message_ids,
                  results, tagIntent, inHandler, snap, tagCalls, docres,
                  fetched, processedDocs, shipvars, parsevars >>

\* the processed label whatever _process_order returned
LabelForAny(success) == "processed"

\* _add_processed_label after a success, _add_error_label after a failure
LabelFor(success) == IF success THEN "processed" ELSE "errored"

\* the end of _process_order (commit, or rollback when the commit raises) and
\* what the caller does with (success, error_msg) up to the label call
Commit(r) ==
  /\ pc[r] = "items"
  /\ Len(itemLog[r]) = Len(CurOrder(r).items)
  /\ \E ok \in BOOLEAN :
       /\ IF ok THEN NoFault ELSE Fault(r)
       /\ purchase_tracker' = purchase_tracker \o CommitWrites(pending[r], ok)
       /\ LET success == ProcessOrderResult(ok, created_count[r])
              field == IF success THEN "processed" ELSE "errors" IN
            /\ results' = [results EXCEPT ![r] =
                             IF r = "batch" THEN Bump(@, field) ELSE @]
            /\ docres' = [docres EXCEPT ![r] = Bump(ZeroDoc, field)]
            /\ tagIntent' = [tagIntent EXCEPT ![r] = LabelFor(success)]
  /\ pending' = [pending EXCEPT ![r] = <<>>]
  /\ pc' = [pc EXCEPT ![r] = "tag"]
  /\ UNCHANGED << oa_sourcing, labels, message_ids, created_count,
                  skipped_count, itemLog, inHandler, snap, tagCalls, fetched,
                  processedDocs, shipvars, parsevars >>

\* the outcome of one add_label_to_message call
TagOutcomes == {"ok", "failed", "raised"}

\* GmailService.add_label_to_message: the labels of message d afterwards
add_label_to_message(lbls, d, label, outcome) ==
  IF outcome = "ok" THEN [lbls EXCEPT ![d] = @ \cup {label}] ELSE lbls

\* _add_processed_label / _add_error_label, and the except handlers around them
TagCall(r) ==
  /\ pc[r] = "tag"
  /\ \E outcome \in TagOutcomes :
       /\ IF outcome = "ok" THEN NoFault ELSE Fault(r)
       /\ labels' = add_label_to_message(labels, CurDoc(r), tagIntent[r], outcome)
       /\ tagCalls' = [tagCalls EXCEPT ![r] =
                         Append(@, [label |-> tagIntent[r], outcome |-> outcome])]
       /\ IF outcome # "raised"
          THEN \* the call returned (True or False, the caller ignores which)
               /\ pc' = [pc EXCEPT ![r] = "doc_done"]
               /\ UNCHANGED << results, docres, tagIntent, inHandler >>
          ELSE IF ~inHandler[r]
          THEN \* the inner except handler: count an error, label errored
               /\ results' = [results EXCEPT ![r] =
                                IF r = "batch" THEN Bump(@, "errors") ELSE @]
               /\ docres' = [docres EXCEPT ![r] =
                               IF r = "batch" THEN Bump(@, "errors")
                                              ELSE Bump(ZeroDoc, "errors")]
               /\ tagIntent' = [tagIntent EXCEPT ![r] = "errored"]
               /\ inHandler' = [inHandler EXCEPT ![r] = TRUE]
               /\ UNCHANGED pc
          ELSE \* raised inside the handler: the batch's outer except ends the
               \* loop; a webhook task ends with the exception (a failure) and
               \* the next task still runs
               /\ results' = [results EXCEPT ![r] =
                                IF r = "batch" THEN OuterExcept(@) ELSE @]
               /\ docres' = [docres EXCEPT ![r] =
                               IF r = "batch" THEN @ ELSE Bump(ZeroDoc, "errors")]
               /\ pc' = [pc EXCEPT ![r] = IF r = "batch" THEN "done" ELSE "doc_done"]
               /\ UNCHANGED << tagIntent, inHandler >>
  /\ UNCHANGED << purchase_tracker, oa_sourcing, message_ids, pending,
                  created_count, skipped_count, itemLog, snap, fetched,
                  processedDocs, shipvars, parsevars >>

\* the messages reported as processed, after the current one has ended
NoteProcessed(r) ==
  IF message_ids[r] # <<>> /\ docres[r].processed = 1
  THEN processedDocs \cup {CurDoc(r)} ELSE processedDocs

\* the loop moves to the next message, or ends
NextDoc(r) ==
  /\ pc[r] = "doc_done"
  /\ message_ids' = [message_ids EXCEPT ![r] = Tail(@)]
  /\ pc' = [pc EXCEPT ![r] = IF Tail(message_ids[r]) = <<>> THEN "done" ELSE "fetch"]
  /\ processedDocs' = NoteProcessed(r)
  /\ UNCHANGED << purchase_tracker, oa_sourcing, labels, faults, results,
                  pending, created_count, skipped_count, itemLog, tagIntent,
                  inHandler, snap, tagCalls, docres, fetched, docFaults,
                  shipvars, parsevars >>

\* the run returns its result
Return(r) ==
  /\ pc[r] = "done"
  /\ pc' = [pc EXCEPT ![r] = "idle"]
  /\ message_ids' = [message_ids EXCEPT ![r] = <<>>]
  /\ processedDocs' = NoteProcessed(r)
  /\ UNCHANGED << purchase_tracker, oa_sourcing, labels, faults, results,
                  pending, created_count, skipped_count, itemLog, tagIntent,
                  inHandler, snap, tagCalls, docres, fetched, docFaults,
                  shipvars, parsevars >>

\* the upstream workflow adds a sourcing lead to the catalog
AddLead ==
  /\ \E u \in UniqueIds \ oa_sourcing : oa_sourcing' = oa_sourcing \cup {u}
  /\ UNCHANGED << purchase_tracker, labels, faults, pc, message_ids, results,
                  pending, created_count, skipped_count, itemLog, tagIntent,
                  inHandler, snap, tagCalls, docres, fetched, docFaults,
                  processedDocs, shipvars, parsevars >>

RunStep ==
  \E r \in Runs :
    \/ FetchAndParse(r)
    \/ DupCheck(r)
    \/ CreateRecord(r)
    \/ Commit(r)
    \/ TagCall(r)
    \/ NextDoc(r)
    \/ Return(r)

Next == SeqStartBatch \/ SeqWebhookNotify \/ RunStep \/ AddLead

\* the purchase path with one run at a time
Spec == Init /\ [][Next]_vars

NextConc == StartBatch \/ WebhookNotify \/ RunStep \/ AddLead

\* overlapping runs, explored with the catalog of a later day and without
\* I/O faults
InitConc == InitWith({"u1", "u2"}, MaxFaults)

SpecConc == InitConc /\ [][NextConc]_vars

\* the max_emails of every run of the repeated batch
RepeatMaxEmails == 1

\* a scheduled batch run: the same max_emails every time
RepeatStartBatch == StartBatchWith(RepeatMaxEmails)

\* the steps of the scheduled batch runs
BatchStep == RepeatStartBatch \/ RunStep

NextRepeat == BatchStep \/ AddLead

\* a day on which only the third message has its lead, without I/O faults
InitRepeat == InitWith({"u3"}, MaxFaults)

\* batch runs repeated for ever: a run that can take a step takes it, and a
\* new run starts whenever the last one has returned
SpecRepeat == InitRepeat /\ [][NextRepeat]_vars /\ WF_vars(BatchStep)

(***************************************************************************)
(* Shipment path: PrepWorxCheckinProcessor.process_and_store               *)
(***************************************************************************)
\* position of the first asin_bank row with this asin, 0 when there is none
AsinLookup(bank, asin) ==
  IF \E i \in 1..Len(bank) : bank[i].asin = asin
  THEN CHOOSE i \in 1..Len(bank) :
         /\ bank[i].asin = asin
         /\ \A j \in 1..(i - 1) : bank[j].asin # asin
  ELSE 0

\* an insert without the lookup
AsinUpsertNoLookup(bank, order_number, item) ==
  Append(bank, [id |-> Len(bank) + 1, lead_id |-> order_number,
                asin |-> item.asin, size |-> item.size])

\* an update that also writes the size over the one the row has
AsinUpsertOverwrite(bank, order_number, item) ==
  LET i == AsinLookup(bank, item.asin) IN
    IF i = 0
    THEN Append(bank, [id |-> Len(bank) + 1, lead_id |-> order_number,
                       asin |-> item.asin, size |-> item.size])
    ELSE IF item.size # "none"
    THEN [bank EXCEPT ![i].size = item.size]
    ELSE bank

\* find or create the asin_bank row of an item; an existing row without a
\* size gets the item's size
AsinUpsert(bank, order_number, item) ==
  LET i == AsinLookup(bank, item.asin) IN
    IF i = 0
    THEN Append(bank, [id |-> Len(bank) + 1, lead_id |-> order_number,
                       asin |-> item.asin, size |-> item.size])
    ELSE IF bank[i].size = "none" /\ item.size # "none"
    THEN [bank EXCEPT ![i].size = item.size]
    ELSE bank

\* an in-batch check that never finds anything
InBatchNever(batch_key, processed_in_batch) == FALSE

\* batch_key in processed_in_batch
InBatch(batch_key, processed_in_batch) == batch_key \in processed_in_batch

\* the Checkin row of an item
CheckinRecord(order_number, asin_bank_id, item) ==
  [order_number |-> order_number, item_name |-> item.item_name,
   asin_bank_id |-> asin_bank_id, quantity |-> item.quantity]

\* a duplicate query that never finds a row
ExistingCheckinNever(rec, committed, session) == FALSE

\* the duplicate query: committed rows and the session's flushed rows
ExistingCheckin(rec, committed, session) ==
  \/ \E i \in 1..Len(committed) : committed[i] = rec
  \/ \E i \in 1..Len(session) : session[i].flushed /\ session[i].row = rec

FlushAll(session) == [i \in 1..Len(session) |-> [session[i] EXCEPT !.flushed = TRUE]]

\* a commit that writes only the rows flushed before
SessionRowsFlushed(session) ==
  LET flushed == SelectSeq(session, LAMBDA e : e.flushed) IN
    [i \in 1..Len(flushed) |-> flushed[i].row]

SessionRows(session) == [i \in 1..Len(session) |-> session[i].row]

ShipOrder == ShipDocuments[ship.doc]

ShipFault == faults < MaxFaults /\ faults' = faults + 1

\* a shipment message without the processed label is discovered, fetched and
\* parsed, and process_and_store is entered
ShipStart ==
  /\ ship.pc = "idle"
  /\ \E d \in ShipDocs :
       /\ "processed" \notin ship_labels[d]
       /\ ship' = [ShipIdle EXCEPT !.pc = "items", !.doc = d, !.idx = 1,
                                   !.session_asin = asin_bank, !.snap = checkin]
  /\ UNCHANGED << parsevars, purchasevars, faults, checkin, asin_bank, ship_labels >>

\* one iteration of the loop over shipment_data.items
ShipItem ==
  /\ ship.pc = "items"
  /\ ship.idx <= Len(ShipOrder.items)
  /\ LET item == ShipOrder.items[ship.idx]
         bank == AsinUpsert(ship.session_asin, ShipOrder.order_number, item)
         created == Len(bank) > Len(ship.session_asin)
         session == IF created THEN FlushAll(ship.session_checkin)
                               ELSE ship.session_checkin
         asin_id == bank[AsinLookup(bank, item.asin)].id
         rec == CheckinRecord(ShipOrder.order_number, asin_id, item)
         batch_key == << ShipOrder.order_number, asin_id, item.item_name, item.quantity >>
     IN
       \/ \* a query raises: caught, the item is an error
          /\ ShipFault
          /\ ship' = [ship EXCEPT !.idx = @ + 1, !.errors = @ + 1,
                                  !.item_log = Append(@, "error")]
       \/ /\ UNCHANGED faults
          /\ IF InBatch(batch_key, ship.processed_in_batch)
             THEN ship' = [ship EXCEPT !.idx = @ + 1, !.session_asin = bank,
                                       !.session_checkin = session,
                                       !.skipped_count = @ + 1,
                                       !.item_log = Append(@, "skipped_batch")]
             ELSE IF ExistingCheckin(rec, checkin, session)
             THEN ship' = [ship EXCEPT !.idx = @ + 1, !.session_asin = bank,
                                       !.session_checkin = session,
                                       !.skipped_count = @ + 1,
                                       !.item_log = Append(@, "skipped_db")]
             ELSE ship' = [ship EXCEPT !.idx = @ + 1, !.session_asin = bank,
                                       !.session_checkin =
                                          Append(session, [row |-> rec, flushed |-> FALSE]),
                                       !.processed_in_batch = @ \cup {batch_key},
                                       !.stored_count = @ + 1,
                                       !.item_log = Append(@, "stored")]
  /\ UNCHANGED << parsevars, purchasevars, checkin, asin_bank, ship_labels >>

\* the label is applied only for a message_id and stored_count > 0
ShouldLabel(stored_count) == stored_count > 0

\* the commit after the loop, or the rollback of the outer except handler
ShipCommit ==
  /\ ship.pc = "items"
  /\ ship.idx > Len(ShipOrder.items)
  /\ \/ /\ UNCHANGED faults
        /\ checkin' = checkin \o SessionRows(ship.session_checkin)
        /\ asin_bank' = ship.session_asin
        /\ ship' = [ship EXCEPT !.success = TRUE, !.session_checkin = <<>>,
                                !.pc = IF ShouldLabel(ship.stored_count)
                                       THEN "label" ELSE "done"]
     \/ /\ ShipFault
        /\ ship' = [ship EXCEPT !.success = FALSE, !.session_checkin = <<>>,
                                !.session_asin = asin_bank, !.pc = "done"]
        /\ UNCHANGED << checkin, asin_bank >>
  /\ UNCHANGED << parsevars, purchasevars, ship_labels >>

\* apply_gmail_label: the label is put on the message, or the call fails and
\* the failure is swallowed
ShipLabel ==
  /\ ship.pc = "label"
  /\ \E outcome \in {"ok", "failed"} :
       /\ IF outcome = "ok" THEN UNCHANGED faults ELSE ShipFault
       /\ ship_labels' = add_label_to_message(ship_labels, ship.doc, "processed", outcome)
       /\ ship' = [ship EXCEPT !.pc = "done",
                     !.label_calls = Append(@, [label |-> "processed", outcome |-> outcome])]
  /\ UNCHANGED << parsevars, purchasevars, checkin, asin_bank >>

\* process_and_store returns its result
ShipReturn ==
  /\ ship.pc = "done"
  /\ ship' = [ship EXCEPT !.pc = "idle"]
  /\ UNCHANGED << parsevars, purchasevars, faults, checkin, asin_bank, ship_labels >>

\* remove_all_prepworx_labels: the processed label is taken off every message
RemoveLabels ==
  /\ ship.pc = "idle"
  /\ \E d \in ShipDocs : ship_labels[d] # {}
  /\ ship_labels' = [d \in ShipDocs |-> {}]
  /\ UNCHANGED << parsevars, purchasevars, faults, checkin, asin_bank, ship >>

NextShip ==
  ShipStart \/ ShipItem \/ ShipCommit \/ ShipLabel \/ ShipReturn \/ RemoveLabels

\* the shipment path, one process_and_store call at a time
SpecShip == Init /\ [][NextShip]_vars

(***************************************************************************)
(* Extraction strategies: parse_email                                      *)
(***************************************************************************)
\* parse_email begins: without an order number it returns None at once
ParseStart ==
  /\ parser.pc = "start"
  /\ parser.email.source \in {"footlocker", "hibbett", "snipes"}
  /\ IF parser.email.order_number = None
     THEN parser' = [parser EXCEPT !.pc = "done",
                       !.result = ParseResult(None, << >>)]
     ELSE parser' = [parser EXCEPT !.pc = "items",
                       !.data = extract_all_size_quantity_data(parser.email.spans)]
  /\ UNCHANGED << purchasevars, shipvars, faults, recon, classify >>

\* FootlockerEmailParser._extract_items: one product image
FootlockerItem ==
  /\ parser.pc = "items"
  /\ parser.email.source = "footlocker"
  /\ parser.idx <= parser.email.anchors
  /\ LET pos == MatchPositions(parser.data, parser.used)
         pair == find_matching_size_quantity_advanced(parser.data, parser.used)
         size == pair[1]
         quantity == pair[2]
         both == size # None /\ quantity # None
     IN parser' = [parser EXCEPT
          !.idx = @ + 1,
          !.assigned = Append(@, pos),
          !.used = IF both THEN @ \cup {pair} ELSE @,
          !.items = IF both /\ is_valid_size(size) /\ is_valid_quantity(quantity)
                    THEN Append(@, [unique_id |-> AnchorIds[parser.idx],
                                    size |-> clean_size(size),
                                    quantity |-> IntOf(quantity)])
                    ELSE @]
  /\ UNCHANGED << purchasevars, shipvars, faults, recon, classify >>

\* HibbettEmailParser._extract_items: one product image and its table row
HibbettItem ==
  /\ parser.pc = "items"
  /\ parser.email.source = "hibbett"
  /\ parser.idx <= Len(parser.email.rows)
  /\ LET row == parser.email.rows[parser.idx]
         quantity == IF row.qty = None THEN 1 ELSE IntOf(row.qty)
     IN parser' = [parser EXCEPT
          !.idx = @ + 1,
          !.items = IF row.size # None /\ hibbett_is_valid_size(row.size)
                    THEN Append(@, [unique_id |-> AnchorIds[parser.idx],
                                    size |-> hibbett_clean_size(row.size),
                                    quantity |-> quantity])
                    ELSE @]
  /\ UNCHANGED << purchasevars, shipvars, faults, recon, classify >>

\* SnipesEmailParser._extract_items: one product row; every row has its own
\* SKU, and a row without a size gives no product details
SnipesItem ==
  /\ parser.pc = "items"
  /\ parser.email.source = "snipes"
  /\ parser.idx <= Len(parser.email.rows)
  /\ LET row == parser.email.rows[parser.idx]
         quantity == IF row.qty = None THEN 1 ELSE IntOf(row.qty)
     IN parser' = [parser EXCEPT
          !.idx = @ + 1,
          !.items = IF row.size # None
                    THEN Append(@, [unique_id |-> AnchorIds[parser.idx],
                                    size |-> snipes_clean_size(row.size),
                                    quantity |-> quantity])
                    ELSE @]
  /\ UNCHANGED << purchasevars, shipvars, faults, recon, classify >>

\* parse_email ends after the loop over the product images
ParseReturn ==
  /\ parser.pc = "items"
  /\ parser.idx > (IF parser.email.source = "footlocker"
                   THEN parser.email.anchors ELSE Len(parser.email.rows))
  /\ parser' = [parser EXCEPT !.pc = "done",
                  !.result = ParseResult(parser.email.order_number, parser.items)]
  /\ UNCHANGED << purchasevars, shipvars, faults, recon, classify >>

\* PrepWorxEmailParser.parse_email: the shipment number of the subject and
\* the rows of the item table
PrepworxParse ==
  /\ parser.pc = "start"
  /\ parser.email.source = "prepworx"
  /\ parser' = [parser EXCEPT !.pc = "done", !.items = parser.email.rows,
                  !.result = ParseResult(parser.email.order_number, parser.email.rows)]
  /\ UNCHANGED << purchasevars, shipvars, faults, recon, classify >>

NextParse ==
  ParseStart \/ FootlockerItem \/ HibbettItem \/ SnipesItem \/ ParseReturn
    \/ PrepworxParse

\* parse_email on every message of Emails
InitParse ==
  /\ InitStores({"u1"}, 0)
  /\ recon = ReconIdle(NoOrderInput)
  /\ classify = ClassifyIdle(NoMessage)
  /\ \E e \in Emails : parser = ParserIdle(e)

SpecParse == InitParse /\ [][NextParse]_vars

(***************************************************************************)
(* Reconciliation: _process_order and its Snipes and Finish Line variants  *)
(***************************************************************************)
\* the order of one item is processed: retailer lookup, record constructor,
\* commit, and the created_count test
ProcessOneItemOrder ==
  /\ recon.pc = "start"
  /\ recon.input.source \in RetailerSources
  /\ LET in == recon.input
         res == create_purchase_tracker_record(in.source, "A", in.item,
                                               in.leads, in.bank)
     IN recon' =
          IF ~in.retailer
          THEN [recon EXCEPT !.pc = "done", !.success = FALSE]
          ELSE [recon EXCEPT !.pc = "done", !.success = res.success,
                             !.rows = IF res.success THEN << res.row >> ELSE << >>]
  /\ UNCHANGED << purchasevars, shipvars, faults, parser, classify >>

NextRecon == ProcessOneItemOrder

InitRecon ==
  /\ InitStores({"u1"}, 0)
  /\ parser = ParserIdle(NoEmail)
  /\ classify = ClassifyIdle(NoMessage)
  /\ \E in \in OrderInputs : recon = ReconIdle(in)

SpecRecon == InitRecon /\ [][NextRecon]_vars

(***************************************************************************)
(* Classification of one message                                           *)
(***************************************************************************)
\* the identity predicate of the source is evaluated on the sender
CheckIdentity ==
  /\ classify.pc = "start"
  /\ classify.msg.source \in Sources
  /\ classify' = [classify EXCEPT !.pc = "intent",
                    !.identity = is_source_email(classify.msg.source, classify.msg.sender)]
  /\ UNCHANGED << purchasevars, shipvars, faults, parser, recon >>

\* the intent predicate of the source is evaluated on the subject
CheckIntent ==
  /\ classify.pc = "intent"
  /\ classify' = [classify EXCEPT !.pc = "done",
                    !.intent = is_order_confirmation_email(classify.msg.source,
                                                           classify.msg.subject)]
  /\ UNCHANGED << purchasevars, shipvars, faults, parser, recon >>

NextClassify == CheckIdentity \/ CheckIntent

\* the predicates of a source on every message of Messages
InitClassify ==
  /\ InitStores({"u1"}, 0)
  /\ parser = ParserIdle(NoEmail)
  /\ recon = ReconIdle(NoOrderInput)
  /\ \E m \in Messages : classify = ClassifyIdle(m)

SpecClassify == InitClassify /\ [][NextClassify]_vars

(***************************************************************************)
(* Properties of the purchase path                                         *)
(***************************************************************************)
\* the handling of run r's current message has ended (normally, or because
\* the batch was ended by its outer except handler)
DocEnded(r) ==
  \/ pc[r] = "doc_done"
  \/ pc[r] = "done" /\ message_ids[r] # <<>>

\* the rows committed since run r's current message began
Written(r) == SubSeq(purchase_tracker, Len(snap[r]) + 1, Len(purchase_tracker))

\* the rows of the items of the current order that reconciled
RECURSIVE DraftsFrom(_, _, _)
DraftsFrom(r, order, k) ==
  IF k > Len(itemLog[r]) THEN <<>>
  ELSE (IF itemLog[r][k] = "created"
        THEN << PurchaseRecord(order.order_number, order.items[k], r) >>
        ELSE <<>>) \o DraftsFrom(r, order, k + 1)

Drafts(r) == DraftsFrom(r, CurOrder(r), 1)

\* the table holds a row of the order number
HasRow(store, order_number) ==
  \E i \in 1..Len(store) : store[i].order_number = order_number

Range(f) == {f[k] : k \in DOMAIN f}

NoRaisedTag(r) ==
  \A k \in 1..Len(tagCalls[r]) : tagCalls[r][k].outcome # "raised"

\* the labels run r has put on its current message
Applied(r) ==
  {tagCalls[r][k].label : k \in {j \in 1..Len(tagCalls[r]) : tagCalls[r][j].outcome = "ok"}}

C2_OrderWrittenOnce ==
  \A i, j \in 1..Len(purchase_tracker) :
    purchase_tracker[i].order_number = purchase_tracker[j].order_number =>
      purchase_tracker[i].by = purchase_tracker[j].by

C4_AllOrNothing ==
  \A r \in Runs :
    (message_ids[r] # <<>> /\ pc[r] \in {"items", "tag", "doc_done", "done"}) =>
      \/ Written(r) = <<>>
      \/ Written(r) = Drafts(r)

\* the commit raised after two items had reconciled: nothing is stored
C4_Witness ==
  \E r \in Runs :
    /\ pc[r] = "tag"
    /\ itemLog[r] = << "created", "created" >>
    /\ docFaults[r] = 1
    /\ Written(r) = <<>>
    /\ tagIntent[r] = "errored"

C6_ExactlyOneTag ==
  \A r \in Runs :
    (DocEnded(r) /\ fetched[r]
       /\ Documents[CurDoc(r)].from_footlocker
       /\ Documents[CurDoc(r)].order_confirmation) =>
      /\ Cardinality(Applied(r)) = 1
      /\ Applied(r) = {"processed"} <=>
           (Written(r) # <<>> \/ (CurOrder(r) # NoOrder /\
               HasRow(snap[r], CurOrder(r).order_number)))

\* C8 (discovery): a search returns every message labelled errored and not
\* processed, unless the result is cut at max_results before reaching it
C8_ErroredListed ==
  \A r \in Runs :
    (pc[r] = "idle" /\ pc'[r] # "idle") =>
      \A d \in Docs :
        ("errored" \in labels[d] /\ "processed" \notin labels[d]) =>
          \/ d \in Range(message_ids'[r])
          \/ /\ Len(message_ids'[r]) \in MaxEmailsChoices \cup {WebhookMaxResults}
             /\ \A k \in 1..Len(message_ids'[r]) : message_ids'[r][k] < d

\* C8 (retry): a message that carries the errored label of an earlier run,
\* whose order has no row yet and of which an item now finds a lead, gets its
\* rows written, is reported as processed and gets the processed label
\* (no I/O fault during the retry)
C8_RetryWrites ==
  \A r \in Runs :
    (DocEnded(r) /\ fetched[r] /\ docFaults[r] = 0
       /\ "errored" \in labels[CurDoc(r)] \ Applied(r)
       /\ CurOrder(r) # NoOrder
       /\ ~HasRow(snap[r], CurOrder(r).order_number)
       /\ \E k \in 1..Len(CurOrder(r).items) :
            CurOrder(r).items[k].unique_id \in oa_sourcing /\ itemLog[r][k] # "no_lead") =>
      /\ Written(r) = Drafts(r)
      /\ Written(r) # <<>>
      /\ docres[r] = Bump(ZeroDoc, "processed")
      /\ tagCalls[r] = << [label |-> "processed", outcome |-> "ok"] >>
      /\ "processed" \in labels[CurDoc(r)]

C9_BatchHandlesAll ==
  /\ (message_ids["batch"] # <<>> /\ pc["batch"] # "fetch") =>
       SubSeq(purchase_tracker, 1, Len(snap["batch"])) = snap["batch"]
  /\ pc["batch"] = "done" => Len(message_ids["batch"]) <= 1

(***************************************************************************)
(* Properties of the shipment path                                         *)
(***************************************************************************)
\* rows i < j of the shipment with the same item_name, asin and quantity
SameRow(items, i, j) ==
  /\ i < j
  /\ items[i].item_name = items[j].item_name
  /\ items[i].asin = items[j].asin
  /\ items[i].quantity = items[j].quantity

\* the number of rows with the duplicate key (order_number, asin_bank_id,
\* item_name, quantity) of the item
RowCount(rows, bank, order_number, item) ==
  Cardinality({i \in 1..Len(rows) :
     /\ rows[i].order_number = order_number
     /\ rows[i].item_name = item.item_name
     /\ rows[i].quantity = item.quantity
     /\ AsinLookup(bank, item.asin) # 0
     /\ rows[i].asin_bank_id = bank[AsinLookup(bank, item.asin)].id})

\* C7: when process_and_store has ended, a successful call has put the
\* processed label on the message and a failed call the errored label
C7_ShipmentTagged ==
  ship.pc = "done" =>
    /\ ship.success => ship.label_calls # <<>>
    /\ ~ship.success => "errored" \in ship_labels[ship.doc]

\* C10: of two identical rows of one shipment the second, unless a query
\* raises for it, is skipped by the in-batch check as soon as it is examined,
\* whenever the first was stored in this call; the call never holds two rows
\* for them, and after a successful call without an error on either row the
\* table holds exactly one row for them and the skip is counted
C10_InBatchDuplicate ==
  ship.pc # "idle" =>
    \A i, j \in 1..Len(ship.item_log) :
      SameRow(ShipOrder.items, i, j) =>
        /\ (ship.item_log[i] = "stored" /\ ship.item_log[j] # "error") =>
             ship.item_log[j] = "skipped_batch"
        /\ ~(ship.item_log[i] = "stored" /\ ship.item_log[j] = "stored")
        /\ RowCount(SessionRows(ship.session_checkin), ship.session_asin,
                    ShipOrder.order_number, ShipOrder.items[i]) <= 1
        /\ (ship.pc \in {"label", "done"} /\ ship.success
              /\ ship.item_log[i] # "error" /\ ship.item_log[j] # "error") =>
             /\ RowCount(checkin, asin_bank, ShipOrder.order_number,
                         ShipOrder.items[i]) = 1
             /\ ship.skipped_count >= 1

\* the second row has been skipped while the first is still uncommitted
C10_Witness ==
  /\ ship.pc = "items"
  /\ ship.doc = 1
  /\ ship.item_log = << "stored", "skipped_batch" >>
  /\ checkin = <<>>
  /\ Len(ship.session_checkin) = 1
  /\ ~ship.session_checkin[1].flushed

\* no two rows of the sequence are equal
NoTwoEqual(rows) ==
  \A i, j \in 1..Len(rows) : i # j => rows[i] # rows[j]

\* every row of the shipment has a committed row with its duplicate key in rows
AllStored(rows, bank, order_number, items) ==
  \A k \in 1..Len(items) : RowCount(rows, bank, order_number, items[k]) >= 1

\* C11: the checkin table never holds two rows with the same (order_number,
\* asin_bank_id, item_name, quantity), the rows a call is about to commit
\* repeat neither each other nor a committed row, and a call on a shipment
\* whose rows were all stored when it began leaves the table as it was
C11_CheckinUnique ==
  /\ NoTwoEqual(checkin)
  /\ ship.pc = "items" => NoTwoEqual(checkin \o SessionRows(ship.session_checkin))
  /\ (ship.pc # "idle"
        /\ AllStored(ship.snap, asin_bank, ShipOrder.order_number, ShipOrder.items)) =>
       /\ checkin = ship.snap
       /\ ship.session_checkin = <<>>
       /\ ship.stored_count = 0

\* a second call on the first shipment, which is stored and carries no
\* label, has ended: every row was skipped and the table is as it was
C11_Witness ==
  /\ ship.pc = "done"
  /\ ship.doc = 1
  /\ ship.success
  /\ ship_labels[1] = {}
  /\ ship.snap # <<>>
  /\ AllStored(ship.snap, asin_bank, ShipOrder.order_number, ShipOrder.items)
  /\ ship.item_log = << "skipped_db", "skipped_db", "skipped_db" >>
  /\ checkin = ship.snap

\* no two rows of the bank have the same (lead_id, asin)
OnePerLeadAsin(bank) ==
  \A i, j \in 1..Len(bank) :
    (bank[i].lead_id = bank[j].lead_id /\ bank[i].asin = bank[j].asin) => i = j

\* C20: the asin_bank table, and the bank as the running call sees it, hold
\* at most one row per (lead_id, asin)
C20_AsinBankUnique ==
  /\ OnePerLeadAsin(asin_bank)
  /\ OnePerLeadAsin(ship.session_asin)

\* the first shipment, which lists asin B1 in two rows, has been committed
\* with both rows examined: the bank has a row for B1 created by the call
C20_Witness ==
  /\ ship.pc = "done"
  /\ ship.doc = 1
  /\ ship.success
  /\ ship.item_log[1] = "stored"
  /\ ship.item_log[2] = "skipped_batch"
  /\ \E i \in 1..Len(asin_bank) :
        asin_bank[i].asin = "B1" /\ asin_bank[i].lead_id = "P1"

(***************************************************************************)
(* Properties of the extraction strategies                                 *)
(***************************************************************************)
\* the anchor received a size and a quantity fragment
Consumed(pos) == pos[1] # 0 /\ pos[2] # 0

\* C12: no two product images of a message receive the same pair of size
\* and quantity fragments: a pair an earlier image has consumed is not
\* given to a later one
C12_DistinctPairs ==
  parser.email.source = "footlocker" =>
    \A a, b \in 1..Len(parser.assigned) :
      (a < b /\ Consumed(parser.assigned[a])) =>
        parser.assigned[a] # parser.assigned[b]

\* the message with the fragments size=8, qty=1, size=9, qty=2
ExampleSpans ==
  << [ctx |-> {"Size"}, text |-> << "8" >>], [ctx |-> {"Qty"}, text |-> << "1" >>],
     [ctx |-> {"Size"}, text |-> << "9" >>], [ctx |-> {"Qty"}, text |-> << "2" >>] >>

\* C13: in the message with the fragments size=8, qty=1, size=9, qty=2 and
\* two product images the first item is returned with (8, 1) and the second
\* with (9, 2)
C13_ProximityExample ==
  (/\ parser.pc = "done"
   /\ parser.email.source = "footlocker"
   /\ parser.email.order_number # None
   /\ parser.email.anchors = 2
   /\ parser.email.spans = ExampleSpans) =>
    /\ parser.result.ok
    /\ Len(parser.result.items) = 2
    /\ parser.result.items[1].size = << "8" >>
    /\ parser.result.items[1].quantity = 1
    /\ parser.result.items[2].size = << "9" >>
    /\ parser.result.items[2].quantity = 2

\* ten times the number a size text of digits, or of digits, a point and one
\* digit, stands for
SizeTimes10(size) ==
  IF IsDigits(size) THEN 10 * IntOf(size)
  ELSE 10 * IntOf(SubSeq(size, 1, Len(size) - 2)) + DigitValue(size[Len(size)])

IsNumericSize(size) ==
  \/ IsDigits(size)
  \/ /\ Len(size) >= 3
     /\ IsDigits(SubSeq(size, 1, Len(size) - 2))
     /\ size[Len(size) - 1] = "."
     /\ size[Len(size)] \in Digit

\* C14: every item of a returned order with a numeric size has a size from
\* 2.0 to 20.0
C14_SizeInRange ==
  (parser.pc = "done" /\ parser.result.ok
     /\ parser.email.source \in {"footlocker", "hibbett"}) =>
    \A k \in 1..Len(parser.result.items) :
      IsNumericSize(parser.result.items[k].size) =>
        /\ SizeTimes10(parser.result.items[k].size) >= 20
        /\ SizeTimes10(parser.result.items[k].size) <= 200

\* C15: every item of an order a retailer strategy returns has quantity >= 1
C15_QuantityPositive ==
  (parser.pc = "done" /\ parser.result.ok
     /\ parser.email.source \in {"footlocker", "hibbett"}) =>
    \A k \in 1..Len(parser.result.items) : parser.result.items[k].quantity >= 1

\* C16: parse_email returns None or an order with an identifier and at least
\* one item; without an identifier it returns None, and without a surviving
\* item it returns None
C16_FailureOrComplete ==
  parser.pc = "done" =>
    /\ \/ parser.result = Failure
       \/ /\ parser.result.ok
          /\ parser.result.order_number # None
          /\ Len(parser.result.items) >= 1
    /\ parser.email.order_number = None => parser.result = Failure
    /\ parser.items = << >> => parser.result = Failure

\* a Foot Locker message with an order number and a product image whose only
\* size candidate is not a valid size: no item survives, None is returned
C16_Witness ==
  /\ parser.pc = "done"
  /\ parser.email.source = "footlocker"
  /\ parser.email.order_number # None
  /\ parser.email.anchors = 1
  /\ parser.email.spans = << [ctx |-> {"Size"}, text |-> << "1" >>],
                            [ctx |-> {"Qty"}, text |-> << "1" >>] >>
  /\ parser.items = << >>
  /\ parser.result = Failure

(***************************************************************************)
(* Properties of the classification                                        *)
(***************************************************************************)
\* C17: the extraction strategy is invoked on a message, the message is
\* labelled, and rows of its order are written, only if the message is from
\* the retailer and is an order confirmation
C17_ClassifiedOnly ==
  /\ \A r \in Runs :
       (pc[r] \in {"dup_check", "items", "tag"} /\ tagCalls[r] = << >>
          /\ ~inHandler[r]) =>
         Classified(Documents[CurDoc(r)])
  /\ \A d \in Docs :
       ~Classified(Documents[d]) =>
         /\ labels[d] = {}
         /\ ~HasRow(purchase_tracker, Documents[d].order_data.order_number)

\* C18: a batch run ends by returning its result: whatever failed for a
\* message (fetch, parse, reconciliation, commit, label call), no exception
\* leaves the entry point, and the result has an error string for every
\* counted error
C18_BatchReturns ==
  /\ ~results["batch"].raised
  /\ results["batch"].error_messages >= results["batch"].errors

\* the batch has ended after a label call raised inside the except handler
C18_Witness ==
  /\ pc["batch"] = "done"
  /\ results["batch"].fatal
  /\ results["batch"].errors >= 1
  /\ message_ids["batch"] # << >>
  /\ Len(tagCalls["batch"]) >= 2
  /\ tagCalls["batch"][Len(tagCalls["batch"])].outcome = "raised"

(***************************************************************************)
(* Properties of the reconciliation                                        *)
(***************************************************************************)
\* C19: for every retailer source, an item whose unique_id is the unique_id
\* of a sourcing lead, with the retailer present, is written as a row with
\* the lead's lead_id, the asin_bank reference or none, the item's quantity
\* and status "Ordered"
C19_RecordWritten ==
  (/\ recon.pc = "done"
   /\ recon.input.retailer
   /\ recon.input.item.unique_id \in recon.input.leads) =>
    /\ recon.success
    /\ Len(recon.rows) = 1
    /\ recon.rows[1].lead_id = Catalog[recon.input.item.unique_id].lead_id
    /\ recon.rows[1].asin_bank_id \in
         {0} \cup {recon.input.bank[i].id : i \in 1..Len(recon.input.bank)}
    /\ recon.rows[1].og_qty = recon.input.item.quantity
    /\ recon.rows[1].final_qty = recon.input.item.quantity
    /\ recon.rows[1].status = "Ordered"


(***************************************************************************)
(* Properties of the shipment quantities and counts                        *)
(***************************************************************************)
\* the rows of the item table that name an ASIN and hold an integer that is
\* zero or negative
AdjustmentRows(d) ==
  {k \in 1..Len(ShipRows[d].rows) :
     /\ ShipRows[d].rows[k].asin # "none"
     /\ IsSignedInt(ShipRows[d].rows[k].quantity_text)
     /\ SignedIntOf(ShipRows[d].rows[k].quantity_text) <= 0}

\* C21: every row of a shipment whose quantity is zero or negative is
\* extracted as an item with exactly that quantity, and after a call that
\* reports success every such item that was stored or skipped as already
\* stored has a committed Checkin row with that quantity
C21_AdjustmentsKept ==
  /\ \A d \in ShipDocs : \A k \in AdjustmentRows(d) :
       \E i \in 1..Len(ShipDocuments[d].items) :
         /\ ShipDocuments[d].items[i].item_name = ShipRows[d].rows[k].item_name
         /\ ShipDocuments[d].items[i].asin = ShipRows[d].rows[k].asin
         /\ ShipDocuments[d].items[i].quantity =
              SignedIntOf(ShipRows[d].rows[k].quantity_text)
  /\ (ship.pc \in {"label", "done"} /\ ship.success) =>
       \A k \in 1..Len(ShipOrder.items) :
         (ShipOrder.items[k].quantity <= 0 /\ ship.item_log[k] # "error") =>
           \E i \in 1..Len(checkin) :
             /\ checkin[i].order_number = ShipOrder.order_number
             /\ checkin[i].item_name = ShipOrder.items[k].item_name
             /\ checkin[i].quantity = ShipOrder.items[k].quantity

C21_Witness ==
  /\ ship.pc = "done" /\ ship.success /\ ship.doc = 2
  /\ \E k \in 1..Len(ShipOrder.items) :
       /\ ShipOrder.items[k].quantity = -1
       /\ ship.item_log[k] = "stored"
  /\ \E i \in 1..Len(checkin) : checkin[i].quantity = -1
  /\ \E i \in 1..Len(checkin) : checkin[i].quantity = 0

(***************************************************************************)
(* Properties of the size normalisation                                    *)
(***************************************************************************)
\* what the normalisation of a size has to give
NormalisedSizes ==
  {<< << "0", "6", ".", "0" >>, << "6" >> >>,
   << << "1", "0", ".", "5" >>, << "1", "0", ".", "5" >> >>,
   << << "1", "4", ".", "0" >>, << "1", "4" >> >>}

\* C22: the size normalisation of every strategy maps "06.0" to "6", "10.5"
\* to "10.5" and "14.0" to "14"; in particular every item a Hibbett or
\* Snipes parse made of a row with one of these sizes carries the
\* normalised size
C22_SizeNormalised ==
  /\ clean_size(<< "0", "6", ".", "0" >>) = << "6" >>
  /\ clean_size(<< "1", "0", ".", "5" >>) = << "1", "0", ".", "5" >>
  /\ clean_size(<< "1", "4", ".", "0" >>) = << "1", "4" >>
  /\ (parser.pc = "done" /\ parser.email.source \in {"hibbett", "snipes"}) =>
       \A k \in 1..Len(parser.email.rows) : \A p \in NormalisedSizes :
         parser.email.rows[k].size = p[1] =>
           \A i \in 1..Len(parser.items) :
             parser.items[i].unique_id = AnchorIds[k] => parser.items[i].size = p[2]

(***************************************************************************)
(* Properties of the predicates                                            *)
(***************************************************************************)
\* C23: two messages that differ only in the letter case of the sender or
\* of the subject get the same answer from the identity predicate and from
\* the intent predicate of every source
C23_CaseInsensitive ==
  classify.pc = "done" =>
    \A m \in Messages :
      (/\ m.source = classify.msg.source
       /\ Lower(m.sender) = Lower(classify.msg.sender)
       /\ Lower(m.subject) = Lower(classify.msg.subject)) =>
        /\ is_source_email(m.source, m.sender) = classify.identity
        /\ is_order_confirmation_email(m.source, m.subject) = classify.intent

(***************************************************************************)
(* Properties of the SKU label                                             *)
(***************************************************************************)
\* C24: every row a retailer's constructor writes carries the label
\* size-product_sku-order_number, with UNKNOWN where the lead has no
\* product_sku
C24_SkuLabel ==
  recon.pc = "done" =>
    \A i \in 1..Len(recon.rows) :
      LET sku == Catalog[recon.input.item.unique_id].product_sku IN
        /\ recon.rows[i].fba_msku[1] = recon.input.item.size
        /\ recon.rows[i].fba_msku[3] = (IF sku = "none" THEN "UNKNOWN" ELSE sku)
        /\ recon.rows[i].fba_msku[5] = recon.rows[i].order_number
        /\ Len(recon.rows[i].fba_msku) = 5
        /\ recon.rows[i].fba_msku[2] = "-" /\ recon.rows[i].fba_msku[4] = "-"

C24_Witness ==
  /\ recon.pc = "done"
  /\ recon.input.item.unique_id = "u3"
  /\ Len(recon.rows) = 1
  /\ recon.rows[1].fba_msku = << "9", "-", "UNKNOWN", "-", "A" >>

(***************************************************************************)
(* Properties of the labels and counters of the purchase path              *)
(***************************************************************************)
\* C25: a step that puts the processed label on a message finds a row of
\* the message's order number committed in purchase_tracker already, and
\* every message that carries the label has such a row
C25_TaggedAfterCommit ==
  [][\A d \in Docs :
       ("processed" \in labels'[d]) =>
         /\ Documents[d].order_data # NoOrder
         /\ HasRow(purchase_tracker', Documents[d].order_data.order_number)
         /\ "processed" \notin labels[d] =>
              HasRow(purchase_tracker, Documents[d].order_data.order_number)]_vars

C25_Witness ==
  \E r \in Runs :
    /\ pc[r] = "doc_done"
    /\ Applied(r) = {"processed"}
    /\ Written(r) # << >>
    /\ HasRow(purchase_tracker, CurOrder(r).order_number)

\* the rows of an order number
RowsOf(store, order_number) == SelectSeq(store, LAMBDA row : row.order_number = order_number)

\* C26: once purchase_tracker holds a row of an order number, no step of a
\* later run adds, changes or removes a row of that order number
C26_OrderFrozen ==
  [][\A d \in Docs :
       LET o == Documents[d].order_data.order_number IN
         HasRow(purchase_tracker, o) =>
           RowsOf(purchase_tracker', o) = RowsOf(purchase_tracker, o)]_vars

\* order A was written without its second item, the lead of that item came
\* later, and a later run met the order again and wrote nothing
C26_Witness ==
  \E r \in Runs :
    /\ pc[r] = "doc_done"
    /\ CurOrder(r).order_number = "A"
    /\ "u2" \in oa_sourcing
    /\ docres[r].skipped_duplicate = 1
    /\ Len(RowsOf(purchase_tracker, "A")) = 1
    /\ RowsOf(purchase_tracker, "A")[1].lead_id = "L1"

\* C27: the batch counts every discovered message in at most one of
\* processed, skipped_duplicate and errors, so their sum never exceeds
\* total_emails
C27_CountedOnce ==
  /\ results["batch"].processed + results["batch"].skipped_duplicate
       + results["batch"].errors <= results["batch"].total_emails
  /\ DocEnded("batch") =>
       docres["batch"].processed + docres["batch"].skipped_duplicate
         + docres["batch"].errors <= 1

(***************************************************************************)
(* Properties of the repeated batch                                        *)
(***************************************************************************)
\* the message is classified, parses, has no row of its order number and an
\* item of it has a lead: _process_order would write it
Processable(d) ==
  /\ Classified(Documents[d]) /\ Documents[d].decodes
  /\ Documents[d].order_data # NoOrder
  /\ "processed" \notin labels[d]
  /\ ~HasRow(purchase_tracker, Documents[d].order_data.order_number)
  /\ \E k \in 1..Len(Documents[d].order_data.items) :
       Documents[d].order_data.items[k].unique_id \in oa_sourcing

\* C28: with batch runs repeated for ever at a fixed max_emails, every
\* message that can be processed is processed in the end
C28_EventuallyProcessed ==
  \A d \in Docs : Processable(d) ~> ("processed" \in labels[d])

(***************************************************************************)
(* Properties of the shipment result and of asin_bank                      *)
(***************************************************************************)
\* C29: in a result that reports success every item of the shipment is
\* counted once, as stored, as skipped or as an error, and stored_count is
\* the number of Checkin rows the call committed
C29_ShipmentCounts ==
  (ship.pc \in {"label", "done"} /\ ship.success) =>
    /\ ship.stored_count + ship.skipped_count + ship.errors = Len(ShipOrder.items)
    /\ ship.stored_count = Len(checkin) - Len(ship.snap)
    /\ ship.stored_count =
         Cardinality({k \in 1..Len(ship.item_log) : ship.item_log[k] = "stored"})
    /\ ship.errors =
         Cardinality({k \in 1..Len(ship.item_log) : ship.item_log[k] = "error"})

C29_Witness ==
  /\ ship.pc = "done" /\ ship.success
  /\ ship.stored_count = 1 /\ ship.skipped_count = 1 /\ ship.errors = 1
  /\ Len(checkin) = Len(ship.snap) + 1

\* C30: a step of the shipment path leaves the lead_id and the asin of
\* every asin_bank row as they are, and changes a size only from missing to
\* a size
C30_AsinBankFrame ==
  [][/\ Len(asin_bank') >= Len(asin_bank)
     /\ \A i \in 1..Len(asin_bank) :
          /\ asin_bank'[i].id = asin_bank[i].id
          /\ asin_bank'[i].lead_id = asin_bank[i].lead_id
          /\ asin_bank'[i].asin = asin_bank[i].asin
          /\ \/ asin_bank'[i].size = asin_bank[i].size
             \/ asin_bank[i].size = "none" /\ asin_bank'[i].size # "none"]_vars

\* the row of B2 got its size from one shipment, and a later shipment with
\* another size for B2 was stored without changing it
C30_Witness ==
  /\ ship.pc = "done" /\ ship.success /\ ship.doc = 1
  /\ \E i \in 1..Len(asin_bank) :
       /\ asin_bank[i].asin = "B2" /\ asin_bank[i].lead_id = "L2"
       /\ asin_bank[i].size = "10"
  /\ \E k \in 1..Len(ShipOrder.items) :
       /\ ShipOrder.items[k].asin = "B2" /\ ShipOrder.items[k].size = "9"
       /\ ship.item_log[k] = "stored"

====
